---------------------------- MODULE Spec2Model ----------------------------
(***************************************************************************)
(* A model of adrSim.py (LoRaSim with network-side ADR): the per-node      *)
(* transmit process, the collision detector at the base station, the       *)
(* airtime formula and the ADR controller.                                *)
(*                                                                         *)
(* Units.  The program computes with floats; the model uses integers:      *)
(*   time    microseconds   (the program's milliseconds times 1000; every  *)
(*                           airtime of the program is a whole number of   *)
(*                           microseconds for bw in {125, 250, 500})       *)
(*   power   centi-dB       (dB and dBm times 100: the sensitivity and     *)
(*                           SNR tables are exact in this unit)            *)
(*   mean    the mean SNR of a full history of SnrHistoryCap entries is    *)
(*           kept as the sum of the entries, that is in units of           *)
(*           1/SnrHistoryCap centi-dB, so that no division rounds.         *)
(* Arithmetic is exact (the reals), not IEEE floating point.               *)
(***************************************************************************)
EXTENDS Integers, Sequences, FiniteSets, TLC

VARIABLES
    nodes,          \* the ids of the created nodes (global list nodes)
    until,          \* the horizon given to env.run(until=simtime), microseconds
    rng,            \* the values the random source may return, per draw site
    now,            \* env.now, microseconds
    pc,             \* per node: where its transmit process is suspended
    wake,           \* per node: the instant of its pending timeout
    queue,          \* the pending timeouts (node ids) in the order the
                    \* environment will process them
    node,           \* per node: the myNode attributes
    packet,         \* per node: node.packet, the myPacket attributes
    packetsAtBS,    \* the global list packetsAtBS, as a sequence of node ids
    nrCollisions,   \* global counters
    nrReceived,
    nrProcessed,
    nrLost,
    failStreak,     \* history variable (not program state): per node, the number
                    \* of its most recent settled transmissions that were all
                    \* lost or collided
    call            \* a single application of one of the pure functions

vars == <<nodes, until, rng, now, pc, wake, queue, node, packet, packetsAtBS,
          nrCollisions, nrReceived, nrProcessed, nrLost, failStreak, call>>

simVars == <<nodes, until, rng, now, pc, wake, queue, node, packet, packetsAtBS,
             nrCollisions, nrReceived, nrProcessed, nrLost, failStreak>>

(***************************************************************************)
(* Unit conversions and arithmetic helpers.                                *)
(***************************************************************************)
dB(x) == 100 * x                \* dB or dBm, in centi-dB
Ms(x) == 1000 * x               \* milliseconds, in microseconds

Abs(x) == IF x < 0 THEN -x ELSE x
Max(a, b) == IF a >= b THEN a ELSE b

\* math.ceil(a / b) for b > 0 (\div rounds down)
CeilDiv(a, b) == -((-a) \div b)

RECURSIVE Pow2(_)
Pow2(k) == IF k <= 0 THEN 1 ELSE 2 * Pow2(k - 1)

RECURSIVE SumSeq(_)
SumSeq(s) == IF s = <<>> THEN 0 ELSE Head(s) + SumSeq(Tail(s))

InSeq(x, s) == \E i \in 1..Len(s) : s[i] = x

\* list.remove(x): the first occurrence goes
RECURSIVE RemoveFirst(_, _)
RemoveFirst(s, x) ==
    IF s = <<>> THEN <<>>
    ELSE IF Head(s) = x THEN Tail(s)
    ELSE <<Head(s)>> \o RemoveFirst(Tail(s), x)

(***************************************************************************)
(* Program constants.                                                      *)
(***************************************************************************)
enableAdr == 1
full_collision == TRUE
maxBSReceives == 8
adr_ack_limit == 16
slot_time == 1000               \* milliseconds
simtime == 100000               \* milliseconds
packetlen == 20                 \* bytes: myNode(i, bsId, avgSendTime, 20)
SnrHistoryCap == 20
RssiHistoryCap == 10
powerThreshold == 6             \* dB
Npream == 8
min_sf == 7
max_sf == 12
max_tx_power == 14
min_tx_power == 2
initialTxpow == 14
GL == 0
noiseFloor == 6
baseFreq == 860000000           \* experiment 3: every packet's carrier

Bandwidths == {125, 250, 500}
SFs == min_sf..max_sf

\* sensi[sf - 7, column of bw], centi-dBm (Table 3 of the paper)
sensi(sf, bw) ==
    LET row == CASE sf = 7  -> <<-12650, -12425, -12075>>
                 [] sf = 8  -> <<-12725, -12675, -12400>>
                 [] sf = 9  -> <<-13125, -12825, -12750>>
                 [] sf = 10 -> <<-13275, -13025, -12875>>
                 [] sf = 11 -> <<-13450, -13275, -12875>>
                 [] sf = 12 -> <<-13325, -13225, -13225>>
        col == CASE bw = 125 -> 1 [] bw = 250 -> 2 [] bw = 500 -> 3
    IN  row[col]

\* snr_threshold[sf - 7], centi-dB
snr_threshold(sf) ==
    CASE sf = 7  -> -750
      [] sf = 8  -> -1000
      [] sf = 9  -> -1250
      [] sf = 10 -> -1500
      [] sf = 11 -> -1750
      [] sf = 12 -> -2000

\* 174 - 10*log10(bw * 1000) - noiseFloor for bw = 125, rounded to the centi-dB
\* (10*log10(125000) = 50.969...): snr = rssi + SnrOffset
SnrOffset == dB(174) - 5097 - dB(noiseFloor)

(***************************************************************************)
(* airtime(sf, cr, pl, bw), microseconds.                                  *)
(***************************************************************************)
\* The symbol duration with its quotient upside down (symbols per unit time)
TsymInverted(sf, bw) == (bw * 1000000) \div Pow2(sf)

Tsym(sf, bw) == (Pow2(sf) * 1000) \div bw

airtime(sf, cr, pl, bw) ==
    LET H  == IF sf = 6 THEN 1 ELSE 0
        DE == IF bw = 125 /\ sf \in {11, 12} THEN 1 ELSE 0
        \* (Npream + 4.25) * Tsym
        Tpream == ((4 * Npream + 17) * Tsym(sf, bw)) \div 4
        payloadSymbNB ==
            8 + Max(CeilDiv(8 * pl - 4 * sf + 28 + 16 - 20 * H, 4 * (sf - 2 * DE))
                      * (cr + 4), 0)
    IN  Tpream + payloadSymbNB * Tsym(sf, bw)

(***************************************************************************)
(* The collision sub-tests.  A packet is a record with the fields of       *)
(* myPacket; powerCollision returns the node ids of the casualties.        *)
(***************************************************************************)
frequencyCollision(p1, p2) ==
    IF Abs(p1.freq - p2.freq) <= 120 /\ (p1.bw = 500 \/ p2.freq = 500) THEN TRUE
    ELSE IF Abs(p1.freq - p2.freq) <= 60 /\ (p1.bw = 250 \/ p2.freq = 250) THEN TRUE
    ELSE IF Abs(p1.freq - p2.freq) <= 30 THEN TRUE
    ELSE FALSE

sfCollision(p1, p2) == p1.sf = p2.sf

\* powerCollision with the threshold itself counted as "too close"
powerCollisionInclusive(p1, p2) ==
    IF Abs(p1.rssi - p2.rssi) <= dB(powerThreshold) THEN {p1.nodeid, p2.nodeid}
    ELSE IF p1.rssi - p2.rssi < dB(powerThreshold) THEN {p1.nodeid}
    ELSE {p2.nodeid}

\* powerCollision without its first branch: the stronger packet always survives
powerCollisionCapture(p1, p2) ==
    IF p1.rssi - p2.rssi < dB(powerThreshold) THEN {p1.nodeid}
    ELSE {p2.nodeid}

powerCollision(p1, p2) ==
    IF Abs(p1.rssi - p2.rssi) < dB(powerThreshold) THEN {p1.nodeid, p2.nodeid}
    ELSE IF p1.rssi - p2.rssi < dB(powerThreshold) THEN {p1.nodeid}
    ELSE {p2.nodeid}

\* the end of p1's critical section, p1 arriving at instant t
CriticalEnd(p1, t) == t + Tsym(p1.sf, p1.bw) * (Npream - 5)

\* timingCollision with a packet that ends exactly with the critical section
\* counted as overlapping
timingCollisionInclusive(p1, p2, t) ==
    CriticalEnd(p1, t) <= p2.addTime + p2.rectime

timingCollision(p1, p2, t) ==
    LET p2_end == p2.addTime + p2.rectime
        p1_cs  == CriticalEnd(p1, t)
    IN  p1_cs < p2_end

\* One pass of the loop body of checkcollision for the arriving packet p and
\* one other packet: the node ids whose packets it marks collided.
PairCasualties(p, other, t) ==
    IF other.nodeid # p.nodeid
       /\ frequencyCollision(p, other) /\ sfCollision(p, other)
    THEN IF full_collision
         THEN IF timingCollision(p, other, t) THEN powerCollision(p, other) ELSE {}
         ELSE {p.nodeid, other.nodeid}
    ELSE {}

\* checkcollision(packet) for the packet p arriving at instant t, with the
\* receiver list bs (node ids) and pkts the current packet of every node:
\*   processed   the value it assigns to packet.processed
\*   casualties  the node ids whose packet.collided it sets to 1
\*   col         its return value
checkcollision(p, pkts, bs, t) ==
    LET processing == Cardinality({i \in 1..Len(bs) : pkts[bs[i]].processed = 1})
        casualties == UNION {PairCasualties(p, pkts[bs[i]], t) : i \in 1..Len(bs)}
    IN  [processed  |-> IF processing > maxBSReceives THEN 0 ELSE 1,
         casualties |-> casualties,
         col        |-> IF p.nodeid \in casualties THEN 1 ELSE 0]

(***************************************************************************)
(* ns_adr_algorithm(sf, txpow, m_snr).  m_snr is the mean SNR in units of  *)
(* 1/SnrHistoryCap centi-dB; nstep is kept in the same unit times 3, so    *)
(* that "nstep -= 1" subtracts AdrStep.                                    *)
(***************************************************************************)
AdrStep == dB(3) * SnrHistoryCap

\* The rate loop entered with no margin left (nstep >= 0)
RECURSIVE RateLoopEager(_, _)
RateLoopEager(sf, nstep) ==
    IF nstep >= 0 /\ sf > min_sf THEN RateLoopEager(sf - 1, nstep - AdrStep)
    ELSE [sf |-> sf, nstep |-> nstep]

RECURSIVE RateLoop(_, _)
RateLoop(sf, nstep) ==
    IF nstep > 0 /\ sf > min_sf THEN RateLoop(sf - 1, nstep - AdrStep)
    ELSE [sf |-> sf, nstep |-> nstep]

RECURSIVE PowerDownLoop(_, _)
PowerDownLoop(txpow, nstep) ==
    IF nstep > 0 /\ txpow > min_tx_power THEN PowerDownLoop(txpow - 3, nstep - AdrStep)
    ELSE [txpow |-> txpow, nstep |-> nstep]

\* The power-up loop with the sign of its test slipped
RECURSIVE PowerUpLoopWrongSign(_, _)
PowerUpLoopWrongSign(txpow, nstep) ==
    IF nstep > 0 /\ txpow < max_tx_power
    THEN PowerUpLoopWrongSign(txpow + 3, nstep - AdrStep)
    ELSE [txpow |-> txpow, nstep |-> nstep]

RECURSIVE PowerUpLoop(_, _)
PowerUpLoop(txpow, nstep) ==
    IF nstep < 0 /\ txpow < max_tx_power THEN PowerUpLoop(txpow + 3, nstep + AdrStep)
    ELSE [txpow |-> txpow, nstep |-> nstep]

ns_adr_algorithm(sf, txpow, m_snr) ==
    LET req_snr    == snr_threshold(sf) * SnrHistoryCap
        margin_snr == m_snr - req_snr
        a == RateLoop(sf, margin_snr)
        b == PowerDownLoop(txpow, a.nstep)
        c == PowerUpLoop(b.txpow, b.nstep)
    IN  [sf |-> a.sf, txpow |-> c.txpow]

(***************************************************************************)
(* myPacket and myNode.                                                    *)
(***************************************************************************)
\* An attribute the constructor does not set (lost, addTime)
NoAttr == -1

\* myPacket(nodeid, plen, distance, sf, txpow): pathLoss stands for
\* Lpld0 + 10*gamma*log10(distance/d0), and cr and shadowing are the two
\* random draws of the constructor.  lost is 1 for True and 0 for False.
myPacket(nodeid, plen, pathLoss, sf, txpow, cr, shadowing) ==
    LET bw   == 125
        Lpl  == pathLoss + shadowing
        rssi == dB(txpow) - dB(GL) - Lpl
    IN  [nodeid    |-> nodeid,
         txpow     |-> txpow,
         sf        |-> sf,
         cr        |-> cr,
         bw        |-> bw,
         pl        |-> plen,
         rssi      |-> rssi,
         snr       |-> rssi + SnrOffset,
         freq      |-> baseFreq,
         rectime   |-> airtime(sf, cr, plen, bw),
         addTime   |-> NoAttr,
         collided  |-> 0,
         processed |-> 0,
         lost      |-> NoAttr]

\* myNode(nodeid, bs, period, packetlen), without its position: only the path
\* loss at its distance to the base station is kept.
myNode(nodeid, pathLoss) ==
    [nodeid       |-> nodeid,
     pathLoss     |-> pathLoss,
     rssi_history |-> <<>>,
     snr_history  |-> <<>>,
     sf           |-> max_sf,
     txpow        |-> initialTxpow,
     packetlen    |-> packetlen,
     adr_ack_cnt  |-> 0,
     sent         |-> 0]

(***************************************************************************)
(* The transmit process.                                                   *)
(***************************************************************************)
\* A in transmit_instant, for transmit_instant = arange(0, simtime, slot_time)
InTransmitInstant(A) == A % Ms(slot_time) = 0 /\ 0 <= A /\ A < until

\* The delay the process waits for the drawn A (lines 392-400)
SlottedDelay(A) ==
    IF InTransmitInstant(A) THEN A
    ELSE A + (Ms(slot_time) - (A % Ms(slot_time)))

\* The environment processes the pending timeouts in the order of their
\* instants and, among equal instants, in the order in which they were
\* scheduled; it stops at the horizon.  The process of node n runs next:
Runnable(n) ==
    /\ queue # <<>>
    /\ Head(queue) = n
    /\ wake[n] < until

\* yield env.timeout(...) by the running process n (the head of the queue),
\* for the instant t: the new timeout goes behind every pending one that is
\* not later
RECURSIVE InsertByTime(_, _, _)
InsertByTime(q, n, t) ==
    IF q # <<>> /\ wake[Head(q)] <= t
    THEN <<Head(q)>> \o InsertByTime(Tail(q), n, t)
    ELSE <<n>> \o q

Schedule(n, t) == InsertByTime(Tail(queue), n, t)

\* np.mean(h) in units of 1/SnrHistoryCap centi-dB: exact for a full history,
\* the only one whose mean is used
MeanSnr(h) == (SumSeq(h) * SnrHistoryCap) \div Len(h)

\* The newest entry popped instead of the oldest: h.pop() for h.pop(0)
PushPopLast(h, x, cap) ==
    LET a == Append(h, x)
    IN  IF Len(a) > cap THEN SubSeq(a, 1, Len(a) - 1) ELSE a

\* h.append(x), then h.pop(0) when longer than cap
Push(h, x, cap) ==
    LET a == Append(h, x)
    IN  IF Len(a) > cap THEN Tail(a) ELSE a

\* The fallback without its test for the slowest rate
FallbackUnbounded(sf, cnt, failed) ==
    IF failed
    THEN [adr_ack_cnt |-> cnt + 1,
          sf |-> IF cnt + 1 > adr_ack_limit THEN sf + 1 ELSE sf]
    ELSE [adr_ack_cnt |-> 0, sf |-> sf]

\* The "simplified ED side ADR" of lines 462-467: sf is the controller's rate,
\* failed says whether the packet was lost or collided.
Fallback(sf, cnt, failed) ==
    IF failed
    THEN [adr_ack_cnt |-> cnt + 1,
          sf |-> IF cnt + 1 > adr_ack_limit /\ sf < max_sf THEN sf + 1 ELSE sf]
    ELSE [adr_ack_cnt |-> 0, sf |-> sf]

\* The controller invoked one observation early: the history tested for
\* at least SnrHistoryCap - 1 entries
NextSettingsEarly(nd, p, snr_history, sfDraw, txDraw) ==
    IF enableAdr = 1 /\ Len(snr_history) >= SnrHistoryCap - 1
    THEN LET r == ns_adr_algorithm(p.sf, p.txpow, MeanSnr(snr_history))
             f == Fallback(r.sf, nd.adr_ack_cnt, p.lost = 1 \/ p.collided = 1)
         IN  [sf |-> f.sf, txpow |-> r.txpow, adr_ack_cnt |-> f.adr_ack_cnt]
    ELSE [sf |-> sfDraw, txpow |-> txDraw, adr_ack_cnt |-> nd.adr_ack_cnt]

\* Lines 456-473: the node's next rate, power and failure counter.  sfDraw and
\* txDraw are the two random.randint draws of the bootstrap branch.
NextSettings(nd, p, snr_history, sfDraw, txDraw) ==
    IF enableAdr = 1 /\ Len(snr_history) = SnrHistoryCap
    THEN LET r == ns_adr_algorithm(p.sf, p.txpow, MeanSnr(snr_history))
             f == Fallback(r.sf, nd.adr_ack_cnt, p.lost = 1 \/ p.collided = 1)
         IN  [sf |-> f.sf, txpow |-> r.txpow, adr_ack_cnt |-> f.adr_ack_cnt]
    ELSE [sf |-> sfDraw, txpow |-> txDraw, adr_ack_cnt |-> nd.adr_ack_cnt]

\* The node is never taken off the receiver list
LeaveNever(bs, n) == bs

\* packetsAtBS after lines 479-480
Leave(bs, n) == IF InSeq(n, bs) THEN RemoveFirst(bs, n) ELSE bs

\* The sensitivity test with the row of the slowest rate for every packet
BelowSensitivityOfSlowest(p) == p.rssi < sensi(max_sf, p.bw)

\* Lines 413-414: the packet is too weak for its rate and bandwidth
BelowSensitivity(p) == p.rssi < sensi(p.sf, p.bw)

\* A counter raised once more than it should be, as when an outcome is counted
\* both where it is detected and where the packet settles
CountTwice(counter, cond) == IF cond THEN counter + 2 ELSE counter

\* A counter raised whether or not its condition holds
CountAlways(counter, cond) == counter + 1

\* "if cond: counter += 1" of lines 430-442
Count(counter, cond) == IF cond THEN counter + 1 ELSE counter

\* The reset applied to the packet of every node
ResetAll(pkts, n) ==
    [m \in DOMAIN pkts |->
        [pkts[m] EXCEPT !.collided = 0, !.processed = 0, !.lost = 0]]

\* Lines 482-484: the settled packet of node n is reset
Reset(pkts, n) ==
    [pkts EXCEPT ![n].collided = 0, ![n].processed = 0, ![n].lost = 0]

\* Lines 402-428: the interarrival wait is over; build the packet, test it
\* against the receiver list and start the airtime wait.
Checking(n) ==
    /\ pc[n] = "idle"
    /\ Runnable(n)
    /\ \E cr \in rng.cr, shadowing \in rng.shadowing :
        LET t  == wake[n]
            p0 == myPacket(n, node[n].packetlen, node[n].pathLoss,
                           node[n].sf, node[n].txpow, cr, shadowing)
            cc == checkcollision(p0, packet, packetsAtBS, t)
        IN  /\ now' = t
            /\ node' = [node EXCEPT ![n].sent = @ + 1]
            /\ IF InSeq(n, packetsAtBS)
               THEN \* "ERROR: packet already in"
                    /\ packet' = [packet EXCEPT ![n] = p0]
                    /\ packetsAtBS' = packetsAtBS
               ELSE IF BelowSensitivity(p0)
               THEN /\ packet' = [packet EXCEPT ![n] = [p0 EXCEPT !.lost = 1]]
                    /\ packetsAtBS' = packetsAtBS
               ELSE /\ packet' =
                         [m \in nodes |->
                            IF m = n
                            THEN [p0 EXCEPT !.lost = 0,
                                            !.processed = cc.processed,
                                            !.collided = cc.col,
                                            !.addTime = t]
                            ELSE IF m \in cc.casualties
                            THEN [packet[m] EXCEPT !.collided = 1]
                            ELSE packet[m]]
                    /\ packetsAtBS' = Append(packetsAtBS, n)
            /\ wake' = [wake EXCEPT ![n] = t + p0.rectime]
            /\ queue' = Schedule(n, t + p0.rectime)
            /\ pc' = [pc EXCEPT ![n] = "airborne"]
    /\ UNCHANGED <<nodes, until, rng, nrCollisions, nrReceived, nrProcessed,
                   nrLost, failStreak, call>>

\* Lines 430-484 and 388-400: the airtime wait is over; count the outcome,
\* extend the histories, choose the next settings, leave the receiver list,
\* draw the next interarrival time and start waiting for it.
Settling(n) ==
    /\ pc[n] = "airborne"
    /\ Runnable(n)
    /\ now' = wake[n]
    /\ IF packet[n].lost = NoAttr
       THEN \* node.packet.lost raises AttributeError: the process dies
            /\ pc' = [pc EXCEPT ![n] = "crashed"]
            /\ queue' = Tail(queue)
            /\ UNCHANGED <<wake, node, packet, packetsAtBS, nrCollisions,
                           nrReceived, nrProcessed, nrLost, failStreak>>
       ELSE \E sfDraw \in rng.sf, txDraw \in rng.txpow, A \in rng.A :
            LET p   == packet[n]
                nd  == node[n]
                snr == Push(nd.snr_history, p.snr, SnrHistoryCap)
                s   == NextSettings(nd, p, snr, sfDraw, txDraw)
            IN  /\ nrLost' = Count(nrLost, p.lost = 1)
                /\ nrCollisions' = Count(nrCollisions, p.collided = 1)
                /\ nrReceived' = Count(nrReceived, p.collided = 0 /\ p.lost # 1)
                /\ nrProcessed' = Count(nrProcessed, p.processed = 1)
                /\ node' = [node EXCEPT
                              ![n].snr_history = snr,
                              ![n].rssi_history =
                                  Push(nd.rssi_history, p.rssi, RssiHistoryCap),
                              ![n].sf = s.sf,
                              ![n].txpow = s.txpow,
                              ![n].adr_ack_cnt = s.adr_ack_cnt]
                /\ failStreak' = [failStreak EXCEPT ![n] =
                                    IF p.lost = 1 \/ p.collided = 1
                                    THEN @ + 1 ELSE 0]
                /\ packetsAtBS' = Leave(packetsAtBS, n)
                /\ packet' = Reset(packet, n)
                /\ wake' = [wake EXCEPT ![n] = wake[n] + SlottedDelay(A)]
                /\ queue' = Schedule(n, wake[n] + SlottedDelay(A))
                /\ pc' = [pc EXCEPT ![n] = "idle"]
    /\ UNCHANGED <<nodes, until, rng, call>>

\* sum(n.sent for n in nodes) of line 638, over the set S of node ids
RECURSIVE SumSent(_)
SumSent(S) ==
    IF S = {} THEN 0
    ELSE LET n == CHOOSE x \in S : TRUE
         IN  node[n].sent + SumSent(S \ {n})

sent == SumSent(nodes)

Transmit == \E n \in nodes : Checking(n)
Complete == \E n \in nodes : Settling(n)

Next == Transmit \/ Complete

NoCall == [fn |-> "none"]

\* The timeouts of the processes of nodes first..N-1, started in this order,
\* each waiting until w[n]
RECURSIVE StartOrder(_, _, _)
StartOrder(first, N, w) ==
    IF first >= N THEN <<>>
    ELSE LET rest == StartOrder(first + 1, N, w)
             IsBefore(m) == w[m] < w[first]
             early == SelectSeq(rest, IsBefore)
             IsNotBefore(m) == w[m] >= w[first]
             late == SelectSeq(rest, IsNotBefore)
         IN  early \o <<first>> \o late

\* The state after the nodes are created and their processes started: N nodes,
\* each at a distance whose path loss is one of PathLosses, every process
\* waiting for its first drawn interarrival time.
InitSim(N, horizon, Rngs, PathLosses) ==
    /\ nodes = 0..(N - 1)
    /\ until = horizon
    /\ rng \in Rngs
    /\ now = 0
    /\ pc = [n \in nodes |-> "idle"]
    /\ node \in {[n \in nodes |-> myNode(n, f[n])] : f \in [nodes -> PathLosses]}
    /\ \E cr \in rng.cr, shadowing \in rng.shadowing :
          packet = [n \in nodes |->
                      myPacket(n, packetlen, node[n].pathLoss, max_sf,
                               initialTxpow, cr, shadowing)]
    /\ wake \in [nodes -> {SlottedDelay(A) : A \in rng.A}]
    /\ queue = StartOrder(0, N, wake)
    /\ packetsAtBS = <<>>
    /\ nrCollisions = 0
    /\ nrReceived = 0
    /\ nrProcessed = 0
    /\ nrLost = 0
    /\ failStreak = [n \in nodes |-> 0]
    /\ call = NoCall

(***************************************************************************)
(* Specifications.  Each one starts the program with its own number of     *)
(* nodes, horizon and supports of the random draws.                        *)
(***************************************************************************)
\* A small network over a few slots, with several values for every draw.
NetNodes == 2
NetHorizon == 4100              \* milliseconds
NetPathLosses == {dB(110), dB(136)}
NetRng ==
    [A         |-> {Ms(300), Ms(1000), Ms(1600)},
     shadowing |-> {0, dB(12)},
     cr        |-> {1},
     sf        |-> {7, 12},
     txpow     |-> {8}]

InitNet == InitSim(NetNodes, Ms(NetHorizon), {NetRng}, NetPathLosses)
SpecNet == InitNet /\ [][Next]_vars

\* More nodes than the receiver can process, all sending in the first slot;
\* the horizon ends before any second transmission.
CapNodes == 10
CapHorizon == 2400              \* milliseconds
CapPathLosses == {dB(110), dB(136)}
CapRng ==
    [A         |-> {Ms(300)},
     shadowing |-> {dB(12)},
     cr        |-> {1},
     sf        |-> {12},
     txpow     |-> {14}]

InitCap == InitSim(CapNodes, Ms(CapHorizon), {CapRng}, CapPathLosses)
SpecCap == InitCap /\ [][Next]_vars

\* Long runs to the program's horizon, each under a random source that
\* returns one value per draw site (a seeded stream), for every combination of
\* the values below.
RunNodes == 2
RunPathLosses == {dB(100), dB(136)}
RunRngs ==
    {[A         |-> {Ms(300)},
      shadowing |-> {sh},
      cr        |-> {1},
      sf        |-> {x},
      txpow     |-> {y}] :
        sh \in {0, dB(12), dB(16)}, x \in SFs, y \in {2, 3, 13, 14}}

InitRun == InitSim(RunNodes, Ms(simtime), RunRngs, RunPathLosses)
SpecRun == InitRun /\ [][Next]_vars

(***************************************************************************)
(* Single applications of the pure functions.  The initial state holds the *)
(* arguments, drawn from the sets below; the Call actions apply the        *)
(* function named by call.fn and store what it returns.                    *)
(***************************************************************************)
\* A packet as the collision sub-tests see it, in flight since addTime
SamplePacket(nodeid, sf, bw, freq, rssi, addTime) ==
    [myPacket(nodeid, packetlen, 0, sf, initialTxpow, 1, 0) EXCEPT
        !.bw = bw, !.freq = freq, !.rssi = rssi, !.snr = rssi + SnrOffset,
        !.rectime = airtime(sf, 1, packetlen, bw),
        !.addTime = addTime, !.processed = 1, !.lost = 0]

FnArgs(fn, p1, p2, t, sf, txpow, m_snr) ==
    [fn |-> fn, p1 |-> p1, p2 |-> p2, t |-> t, sf |-> sf, txpow |-> txpow,
     m_snr |-> m_snr, done |-> FALSE,
     out |-> [flag |-> FALSE, casualties |-> {}, col |-> 0, sf |-> 0, txpow |-> 0,
              value |-> 0]]

\* received powers, centi-dBm: the differences include 5.99, 6, 6.01 and 7 dB
FnRssi == {-12000, -11500, -11401, -11400, -11399, -11300, -10000}
FnFreqOffsets == {0, 30, 31, 60, 61, 120, 121}
FnStart == Ms(1000)

PowerArgs ==
    {FnArgs("powerCollision",
            SamplePacket(1, 7, 125, baseFreq, r1, FnStart),
            SamplePacket(2, 7, 125, baseFreq, r2, FnStart), FnStart, 0, 0, 0) :
        r1 \in FnRssi, r2 \in FnRssi}

FrequencyArgs ==
    {FnArgs("frequencyCollision",
            SamplePacket(1, 7, x[1], baseFreq + x[3], -12000, FnStart),
            SamplePacket(2, 7, x[2], baseFreq + x[4], -12000, FnStart),
            FnStart, 0, 0, 0) :
        x \in Bandwidths \X Bandwidths \X {0, 60} \X FnFreqOffsets}

\* p2 in flight since FnStart; p1 arrives at t, around the instant at which its
\* critical section ends exactly with p2
CheckArgs ==
    {a \in {FnArgs("checkcollision",
                   SamplePacket(1, x[1], 125, baseFreq, x[3], NoAttr),
                   SamplePacket(2, x[2], 125, baseFreq, x[4], FnStart),
                   FnStart + airtime(x[2], 1, packetlen, 125)
                     - Tsym(x[1], 125) * (Npream - 5) + x[5],
                   0, 0, 0) :
               x \in {7, 12} \X {7, 12} \X {-12000, -11400, -10000}
                       \X {-12000, -11400, -10000}
                       \X {-Ms(20), -1, 0, 1, Ms(3)}} :
        a.t >= FnStart /\ a.t <= a.p2.addTime + a.p2.rectime}

\* the mean SNR in quarter-dB steps from -FnSnrLo dB to FnSnrHi dB
FnSnrLo == 40
FnSnrHi == 30
FnMeanSnrs == {25 * SnrHistoryCap * k : k \in (-4 * FnSnrLo)..(4 * FnSnrHi)}

\* The powers a node can hold: 2..14 from the bootstrap draws, and what the
\* power loops of ns_adr_algorithm make of them
TxPowers == (min_tx_power - 2)..(max_tx_power + 2)

AdrArgs ==
    {FnArgs("ns_adr_algorithm", NoCall, NoCall, 0, sf, txpow, m) :
        sf \in SFs, txpow \in TxPowers, m \in FnMeanSnrs}

\* airtime for every rate, coding rate and bandwidth, and the payload lengths
\* 0..FnMaxPl bytes
FnMaxPl == 40
AirtimeArgs ==
    {FnArgs("airtime", [sf |-> x[1], cr |-> x[2], pl |-> x[3], bw |-> x[4]],
            NoCall, 0, 0, 0, 0) :
        x \in SFs \X (1..4) \X (0..FnMaxPl) \X Bandwidths}

CallAirtime ==
    /\ call.fn = "airtime" /\ ~call.done
    /\ call' = [call EXCEPT !.done = TRUE,
                  !.out.value = airtime(call.p1.sf, call.p1.cr, call.p1.pl,
                                        call.p1.bw)]
    /\ UNCHANGED simVars

CallPowerCollision ==
    /\ call.fn = "powerCollision" /\ ~call.done
    /\ call' = [call EXCEPT !.done = TRUE,
                  !.out.casualties = powerCollision(call.p1, call.p2)]
    /\ UNCHANGED simVars

CallFrequencyCollision ==
    /\ call.fn = "frequencyCollision" /\ ~call.done
    /\ call' = [call EXCEPT !.done = TRUE,
                  !.out.flag = frequencyCollision(call.p1, call.p2)]
    /\ UNCHANGED simVars

\* checkcollision(p1) with packetsAtBS = [node 2], then lines 421-424
CallCheckcollision ==
    /\ call.fn = "checkcollision" /\ ~call.done
    /\ LET cc == checkcollision(call.p1, (1 :> call.p1) @@ (2 :> call.p2),
                                <<2>>, call.t)
       IN  call' = [call EXCEPT !.done = TRUE,
                      !.out.casualties = cc.casualties,
                      !.out.col = cc.col,
                      !.out.flag = timingCollision(call.p1, call.p2, call.t)]
    /\ UNCHANGED simVars

CallAdr ==
    /\ call.fn = "ns_adr_algorithm" /\ ~call.done
    /\ LET r == ns_adr_algorithm(call.sf, call.txpow, call.m_snr)
       IN  call' = [call EXCEPT !.done = TRUE,
                      !.out.sf = r.sf, !.out.txpow = r.txpow]
    /\ UNCHANGED simVars

NextFn ==
    \/ CallPowerCollision
    \/ CallFrequencyCollision
    \/ CallCheckcollision
    \/ CallAdr
    \/ CallAirtime

\* No node is created and no process runs: only the function is applied.
InitFn ==
    /\ nodes = {}
    /\ until = 0
    /\ rng = [A |-> {}, shadowing |-> {}, cr |-> {}, sf |-> {}, txpow |-> {}]
    /\ now = 0
    /\ pc = <<>>
    /\ wake = <<>>
    /\ queue = <<>>
    /\ node = <<>>
    /\ packet = <<>>
    /\ packetsAtBS = <<>>
    /\ nrCollisions = 0
    /\ nrReceived = 0
    /\ nrProcessed = 0
    /\ nrLost = 0
    /\ failStreak = <<>>
    /\ call \in PowerArgs \cup FrequencyArgs \cup CheckArgs \cup AdrArgs
                \cup AirtimeArgs

SpecFn == InitFn /\ [][NextFn]_vars

(***************************************************************************)
(* Node placement: the loop of myNode.__init__ (lines 264-294).  Positions *)
(* are pairs <<x, y>> of whole metres; the distance test is made on the    *)
(* squares.  Of the node under construction only nodeid, x and y are kept  *)
(* here; its other attributes are those of myNode above.                   *)
(***************************************************************************)
minSeparation == 10             \* "if dist >= 10"
maxRounds == 100                \* "rounds < 100", "rounds == 100"

\* Lines 278-279: dist >= 10 for the placed node at p and the candidate q
FarEnough(p, q) ==
    (p[1] - q[1]) * (p[1] - q[1]) + (p[2] - q[2]) * (p[2] - q[2])
        >= minSeparation * minSeparation

\* Lines 277-288: the for loop over the k nodes placed so far, from node i on,
\* for the candidate pos; st holds found, rounds, x, y and whether exit(-1)
\* was called
RECURSIVE ScanNodes(_, _, _, _)
ScanNodes(i, k, pos, st) ==
    IF i >= k \/ st.exited THEN st
    ELSE ScanNodes(i + 1, k, pos,
            IF FarEnough(<<node[i].x, node[i].y>>, pos)
            THEN [found |-> 1, rounds |-> st.rounds, x |-> pos[1], y |-> pos[2],
                  exited |-> FALSE]
            ELSE [found |-> st.found, rounds |-> st.rounds + 1, x |-> st.x,
                  y |-> st.y, exited |-> (st.rounds + 1 = maxRounds)])

\* Lines 269-294: the while loop, cands being the candidate positions the
\* random source yields in turn; pending says that the loop wants one more
\* candidate than cands holds
RECURSIVE PlaceLoop(_, _, _)
PlaceLoop(cands, k, st) ==
    IF st.exited \/ ~(st.found = 0 /\ st.rounds < maxRounds)
    THEN [st |-> st, pending |-> FALSE, unused |-> Len(cands)]
    ELSE IF cands = <<>>
    THEN [st |-> st, pending |-> TRUE, unused |-> 0]
    ELSE PlaceLoop(Tail(cands), k,
            IF k > 0 THEN ScanNodes(0, k, Head(cands), st)
            ELSE [found |-> 1, rounds |-> st.rounds, x |-> Head(cands)[1],
                  y |-> Head(cands)[2], exited |-> FALSE])

\* The candidate positions and the number of nodes created
PlaceSpan == 4
PlaceGrid == {<<5 * i, 5 * j>> : i \in 0..PlaceSpan, j \in 0..1}
PlaceNodes == 3
PlaceMaxDraws == 2
PlaceDraws ==
    UNION {[1..d -> PlaceGrid] : d \in 1..PlaceMaxDraws}

\* myNode(i, ...) followed by nodes.append(node), lines 610-614: node k is
\* placed with the candidates cands, all of which the loop consumes
Place ==
    /\ Cardinality(nodes) < PlaceNodes
    /\ \A n \in nodes : pc[n] # "exited"
    /\ LET k == Cardinality(nodes)
       IN  \E cands \in PlaceDraws :
             LET r == PlaceLoop(cands, k,
                        [found |-> 0, rounds |-> 0, x |-> 0, y |-> 0,
                         exited |-> FALSE])
             IN  /\ ~r.pending /\ r.unused = 0
                 /\ nodes' = nodes \cup {k}
                 /\ node' = node @@ (k :> [nodeid |-> k, x |-> r.st.x, y |-> r.st.y])
                 /\ pc' = pc @@ (k :> IF r.st.exited THEN "exited" ELSE "placed")
    /\ UNCHANGED <<until, rng, now, wake, queue, packet, packetsAtBS,
                   nrCollisions, nrReceived, nrProcessed, nrLost, failStreak, call>>

\* Before the first node is created
InitPlace ==
    /\ nodes = {}
    /\ until = 0
    /\ rng = [A |-> {}, shadowing |-> {}, cr |-> {}, sf |-> {}, txpow |-> {}]
    /\ now = 0
    /\ pc = <<>>
    /\ wake = <<>>
    /\ queue = <<>>
    /\ node = <<>>
    /\ packet = <<>>
    /\ packetsAtBS = <<>>
    /\ nrCollisions = 0
    /\ nrReceived = 0
    /\ nrProcessed = 0
    /\ nrLost = 0
    /\ failStreak = <<>>
    /\ call = NoCall

SpecPlace == InitPlace /\ [][Place]_vars

(***************************************************************************)
(* Claims about the pure functions, checked under SpecFn.                  *)
(***************************************************************************)
Weaker(p1, p2) == IF p1.rssi < p2.rssi THEN p1.nodeid ELSE p2.nodeid
PowerCalled == call.fn = "powerCollision" /\ call.done
RssiDiff == Abs(call.p1.rssi - call.p2.rssi)

\* C2 as stated: at a difference of exactly 6 dB powerCollision returns both
\* packets, at 7 dB only the weaker one.
C2_BothAtThreshold ==
    PowerCalled =>
        /\ RssiDiff = dB(powerThreshold) => call.out.casualties = {1, 2}
        /\ RssiDiff = dB(7) => call.out.casualties = {Weaker(call.p1, call.p2)}

\* C2 amended: at a difference of exactly 6 dB, as at 7 dB, powerCollision
\* returns only the weaker packet; it returns both packets when the difference
\* is below 6 dB.
C2_WeakerAtThreshold ==
    PowerCalled =>
        /\ RssiDiff = dB(powerThreshold) =>
              call.out.casualties = {Weaker(call.p1, call.p2)}
        /\ RssiDiff = dB(7) => call.out.casualties = {Weaker(call.p1, call.p2)}
        /\ RssiDiff < dB(powerThreshold) => call.out.casualties = {1, 2}

C2_Witness ==
    PowerCalled /\ RssiDiff = dB(powerThreshold) /\ call.out.casualties = {2}

CheckCalled == call.fn = "checkcollision" /\ call.done
P2End == call.p2.addTime + call.p2.rectime

\* C3 as stated: in full-capture mode, if the critical window of the arriving
\* packet p1 ends strictly before the in-flight packet p2 ends, p1 is not
\* marked collided because of p2, whatever the two powers.
C3_EarlyWindowSafe ==
    (CheckCalled /\ CriticalEnd(call.p1, call.t) < P2End) =>
        (call.out.col = 0 /\ 1 \notin call.out.casualties)

\* C3 amended: in full-capture mode, if the critical window of the arriving
\* packet p1 ends at or after the end of the in-flight packet p2, p1 is not
\* marked collided because of p2, whatever the two powers.
C3_LateWindowSafe ==
    (CheckCalled /\ CriticalEnd(call.p1, call.t) >= P2End) =>
        (call.out.col = 0 /\ 1 \notin call.out.casualties)

\* p1 is the weaker packet on p2's rate and carrier, and only timing saves it
C3_Witness ==
    /\ CheckCalled
    /\ CriticalEnd(call.p1, call.t) = P2End
    /\ call.p1.sf = call.p2.sf
    /\ call.p1.rssi < call.p2.rssi
    /\ call.out.col = 0

\* C4: the frequency sub-test is symmetric in its two packets.
C4_FrequencySymmetric ==
    (call.fn = "frequencyCollision" /\ call.done) =>
        call.out.flag = frequencyCollision(call.p2, call.p1)

AdrCalled == call.fn = "ns_adr_algorithm" /\ call.done

\* C6: a mean SNR higher by 3 dB, with the same input rate and power, gives a
\* rate that is not slower and a power that is not higher.
C6_Monotone ==
    AdrCalled =>
        LET hi == ns_adr_algorithm(call.sf, call.txpow,
                                   call.m_snr + dB(3) * SnrHistoryCap)
        IN  hi.sf <= call.out.sf /\ hi.txpow <= call.out.txpow

\* the 3 dB make a difference: without them the controller keeps the rate and
\* raises the power, with them it returns a faster rate
C6_Witness ==
    /\ AdrCalled
    /\ call.sf = 9 /\ call.out.sf = 9 /\ call.out.txpow > call.txpow
    /\ LET hi == ns_adr_algorithm(call.sf, call.txpow,
                                  call.m_snr + dB(3) * SnrHistoryCap)
       IN  hi.sf < call.out.sf /\ hi.txpow <= call.out.txpow

\* C7: with the mean SNR equal to the required SNR of the current rate, the
\* controller returns the rate and the power it was given.
C7_NoMarginNoChange ==
    (AdrCalled /\ call.m_snr = snr_threshold(call.sf) * SnrHistoryCap) =>
        (call.out.sf = call.sf /\ call.out.txpow = call.txpow)

C7_Witness ==
    /\ AdrCalled
    /\ call.sf = 9 /\ call.txpow = 8
    /\ call.m_snr = -1250 * SnrHistoryCap
    /\ call.out.sf = 9 /\ call.out.txpow = 8

(***************************************************************************)
(* Claims about the receiver and the transmit process.                     *)
(***************************************************************************)
Processing ==
    Cardinality({i \in 1..Len(packetsAtBS) : packet[packetsAtBS[i]].processed = 1})

\* C1: the number of entries of packetsAtBS whose packet is marked processed
\* never exceeds maxBSReceives, and an entry that arrived with the limit
\* reached is not marked processed.
C1_ProcessedWithinLimit == Processing <= maxBSReceives

\* C5: when the 17th consecutive lost or collided transmission of a node
\* settles and the rate it used is below 12, the node's next rate is exactly
\* that rate plus one, wherever in the run this happens.
C5_FallbackStep ==
    \A n \in nodes :
        (pc[n] = "idle" /\ failStreak[n] = adr_ack_limit + 1
           /\ packet[n].sf < max_sf)
        => node[n].sf = packet[n].sf + 1

\* C8: every node's transmit power lies within [2, 14] dBm.
C8_PowerInRange ==
    \A n \in nodes : node[n].txpow \in min_tx_power..max_tx_power

\* C9: every node's rate lies within 7..12, for the node and for its packet.
C9_RateInRange ==
    \A n \in nodes : node[n].sf \in SFs /\ packet[n].sf \in SFs

\* the fallback has run past its limit with the controller's rate at 12, and
\* the controller has run at rate 7
C9_Witness ==
    \E n \in nodes :
        /\ pc[n] = "idle"
        /\ node[n].adr_ack_cnt > adr_ack_limit
        /\ packet[n].sf = max_sf /\ node[n].sf = max_sf
        /\ ns_adr_algorithm(packet[n].sf, packet[n].txpow,
                            MeanSnr(node[n].snr_history)).sf = max_sf
        /\ \E m \in nodes :
              /\ Len(node[m].snr_history) = SnrHistoryCap
              /\ node[m].sf = min_sf

Occurrences(n) == Cardinality({i \in 1..Len(packetsAtBS) : packetsAtBS[i] = n})

\* C10: a node is in packetsAtBS at most once, and exactly while it is in its
\* airtime wait with a packet that met the sensitivity; no process meets the
\* "packet already in" branch, which leaves the packet without its lost flag.
C10_Membership ==
    \A n \in nodes :
        /\ Occurrences(n) <= 1
        /\ InSeq(n, packetsAtBS) <=> (pc[n] = "airborne" /\ packet[n].lost = 0)
        /\ pc[n] = "airborne" => packet[n].lost # NoAttr
        /\ pc[n] # "crashed"

\* one node is on the list with its packet in flight while another waits out
\* the airtime of a lost packet, and a third transmission has left the list
C10_Witness ==
    /\ \E n \in nodes : InSeq(n, packetsAtBS) /\ pc[n] = "airborne"
    /\ \E n \in nodes : ~InSeq(n, packetsAtBS) /\ pc[n] = "airborne"
                          /\ packet[n].lost = 1
    /\ nrReceived + nrCollisions > 0

\* C11: a packet whose received power is below the sensitivity of its rate and
\* bandwidth is marked lost, is not on packetsAtBS and is not marked collided
\* while it is in the air; its arrival changes no other node's packet and not
\* the receiver list; and when it settles it is counted lost, not collided and
\* not received.
C11_LostStaysOut ==
    /\ [](\A n \in nodes :
            (pc[n] = "airborne"
               /\ packet[n].rssi < sensi(packet[n].sf, packet[n].bw))
            => /\ packet[n].lost = 1
               /\ ~InSeq(n, packetsAtBS)
               /\ packet[n].collided = 0)
    /\ [][\A n \in nodes :
            (pc[n] = "idle" /\ pc'[n] = "airborne"
               /\ packet'[n].rssi < sensi(packet'[n].sf, packet'[n].bw))
            => /\ \A m \in nodes \ {n} : packet'[m] = packet[m]
               /\ packetsAtBS' = packetsAtBS]_vars
    /\ [][\A n \in nodes :
            (pc[n] = "airborne" /\ pc'[n] = "idle"
               /\ packet[n].rssi < sensi(packet[n].sf, packet[n].bw))
            => /\ nrLost' = nrLost + 1
               /\ nrCollisions' = nrCollisions
               /\ nrReceived' = nrReceived]_vars

\* a lost packet has just arrived on the rate of a packet that is in flight
\* and not collided
C11_Witness ==
    \E n \in nodes, m \in nodes :
        /\ n # m
        /\ pc[n] = "airborne" /\ packet[n].lost = 1
        /\ now = wake[n] - packet[n].rectime
        /\ InSeq(m, packetsAtBS)
        /\ packet[m].sf = packet[n].sf
        /\ packet[m].addTime < now
        /\ packet[m].collided = 0

\* C12: in full-capture mode, when a packet arrives on the rate and carrier of
\* a packet of another node that is in flight, both meet the sensitivity, the
\* arriving packet's critical window ends before the other packet does and the
\* two received powers differ by less than 6 dB, both packets are marked
\* collided; a packet marked collided stays so while it is in the air, and
\* when it settles it adds one to nrCollisions and nothing to nrReceived.
C12_BothCollide ==
    /\ [][\A n \in nodes, m \in nodes :
            (/\ n # m
             /\ pc[n] = "idle" /\ pc'[n] = "airborne"
             /\ packet'[n].lost = 0
             /\ InSeq(m, packetsAtBS)
             /\ packet'[n].sf = packet[m].sf
             /\ packet'[n].freq = packet[m].freq
             /\ CriticalEnd(packet'[n], now') < packet[m].addTime + packet[m].rectime
             /\ Abs(packet'[n].rssi - packet[m].rssi) < dB(powerThreshold))
            => (packet'[n].collided = 1 /\ packet'[m].collided = 1)]_vars
    /\ [][\A n \in nodes :
            (pc[n] = "airborne" /\ packet[n].collided = 1)
            => IF pc'[n] = "airborne"
               THEN packet'[n].collided = 1
               ELSE nrCollisions' = nrCollisions + 1 /\ nrReceived' = nrReceived]_vars

\* the first packets of two nodes, on one rate and less than 6 dB apart, have
\* both settled: two collisions and nothing received
C12_Witness ==
    \E n \in nodes, m \in nodes :
        /\ n # m
        /\ pc[n] = "idle" /\ pc[m] = "idle"
        /\ node[n].sent = 1 /\ node[m].sent = 1
        /\ packet[n].sf = packet[m].sf
        /\ Abs(packet[n].rssi - packet[m].rssi) < dB(powerThreshold)
        /\ nrCollisions = 2 /\ nrReceived = 0

\* C13: whenever the total sent count is positive, nrCollisions and nrReceived
\* both lie between 0 and sent, so that (sent - nrCollisions)/sent and
\* nrReceived/sent lie in [0, 1].
C13_DerWithinUnit ==
    sent > 0 =>
        /\ 0 <= nrCollisions /\ nrCollisions <= sent
        /\ 0 <= nrReceived /\ nrReceived <= sent

\* every packet sent has settled, some of them collided and some received
C13_Witness ==
    /\ sent > 0
    /\ nrCollisions > 0 /\ nrReceived > 0
    /\ nrCollisions + nrReceived + nrLost = sent

AirtimeCalled == call.fn = "airtime" /\ call.done

\* C14 as stated: airtime is strictly increasing in the rate and strictly
\* increasing in the payload length, the other arguments fixed.
C14_StrictlyIncreasing ==
    AirtimeCalled =>
        LET a == call.p1
        IN  /\ a.sf < max_sf => airtime(a.sf + 1, a.cr, a.pl, a.bw) > call.out.value
            /\ airtime(a.sf, a.cr, a.pl + 1, a.bw) > call.out.value

\* C14 amended: airtime is strictly increasing in the rate and non-decreasing
\* in the payload length: airtime(.., pl+1, ..) >= airtime(.., pl, ..).
C14_IncreasingInRate ==
    AirtimeCalled =>
        LET a == call.p1
        IN  /\ a.sf < max_sf => airtime(a.sf + 1, a.cr, a.pl, a.bw) > call.out.value
            /\ airtime(a.sf, a.cr, a.pl + 1, a.bw) >= call.out.value

\* one more byte fits into the last payload symbol block: the airtime of the
\* program's 20-byte packet at rate 7 is that of a 21-byte packet, and a
\* 23-byte packet takes longer
C14_Witness ==
    /\ AirtimeCalled
    /\ call.p1.sf = min_sf /\ call.p1.pl = packetlen
    /\ airtime(call.p1.sf, call.p1.cr, packetlen + 1, call.p1.bw) = call.out.value
    /\ airtime(call.p1.sf, call.p1.cr, packetlen + 3, call.p1.bw) > call.out.value
    /\ airtime(call.p1.sf + 1, call.p1.cr, packetlen, call.p1.bw) > call.out.value

\* C15 as stated: once a node's Checking step has completed, no step of
\* another node changes the collided or processed flag of its packet before
\* the packet settles.
C15_OutcomeFixedAtArrival ==
    [][\A n \in nodes :
          (pc[n] = "airborne" /\ pc'[n] = "airborne")
          => /\ packet'[n].collided = packet[n].collided
             /\ packet'[n].processed = packet[n].processed]_vars

\* C15 amended: while a packet is in the air its processed and lost flags do
\* not change, and its collided flag changes only from 0 to 1 and only in the
\* Checking step of another node (whose arriving packet destroys it).
C15_OnlyRaisedByArrivals ==
    [][\A n \in nodes :
          (pc[n] = "airborne" /\ pc'[n] = "airborne")
          => /\ packet'[n].processed = packet[n].processed
             /\ packet'[n].lost = packet[n].lost
             /\ \/ packet'[n].collided = packet[n].collided
                \/ /\ packet[n].collided = 0 /\ packet'[n].collided = 1
                   /\ \E m \in nodes \ {n} :
                         pc[m] = "idle" /\ pc'[m] = "airborne"]_vars

\* the first packet of a node was marked collided by a packet that arrived
\* after it
C15_Witness ==
    \E n \in nodes, m \in nodes :
        /\ pc[n] = "airborne" /\ pc[m] = "airborne"
        /\ node[n].sent = 1 /\ node[m].sent = 1
        /\ InSeq(n, packetsAtBS) /\ InSeq(m, packetsAtBS)
        /\ packet[n].addTime < packet[m].addTime
        /\ now = packet[m].addTime
        /\ packet[n].collided = 1

\* C16: in one invocation of ns_adr_algorithm the power-increase loop raises
\* the power only if the rate loop and the power-decrease loop changed
\* nothing.
C16_PowerUpOnlyAlone ==
    AdrCalled =>
        LET margin_snr == call.m_snr - snr_threshold(call.sf) * SnrHistoryCap
            a == RateLoop(call.sf, margin_snr)
            b == PowerDownLoop(call.txpow, a.nstep)
        IN  call.out.txpow > b.txpow => (a.sf = call.sf /\ b.txpow = call.txpow)

\* C17: at every Settling step of every node, in the bootstrap phase as in the
\* adaptation phase, a transmission that was lost or collided adds one to the
\* node's failure counter.
C17_FailureAlwaysCounted ==
    [][\A n \in nodes :
          (pc[n] = "airborne" /\ pc'[n] = "idle"
             /\ (packet[n].lost = 1 \/ packet[n].collided = 1))
          => node'[n].adr_ack_cnt = node[n].adr_ack_cnt + 1]_vars

\* The guard of C18 for two bandwidths, in the unit of the carrier
\* frequencies as the program compares them
GuardOfBoth(bw1, bw2) ==
    IF bw1 = 500 \/ bw2 = 500 THEN 120
    ELSE IF bw1 = 250 \/ bw2 = 250 THEN 60
    ELSE 30

\* C18: the frequency sub-test reports overlap exactly when the distance of
\* the two carriers is within the guard chosen by the bandwidths of both
\* packets: 120 if either uses 500 kHz, else 60 if either uses 250 kHz, else 30.
C18_GuardOfBothSides ==
    (call.fn = "frequencyCollision" /\ call.done) =>
        (call.out.flag <=>
            Abs(call.p1.freq - call.p2.freq) <= GuardOfBoth(call.p1.bw, call.p2.bw))

\* C19: every transmission of every node, the first and the later ones, starts
\* at an integer multiple of slot_time, and the delay waited for a drawn A is
\* never shorter than A.
C19_StartsOnSlotBoundary ==
    /\ \A A \in rng.A : SlottedDelay(A) >= A
    /\ \A n \in nodes :
          pc[n] = "airborne" => (wake[n] - packet[n].rectime) % Ms(slot_time) = 0

\* The last cap entries of the sequence h followed by x
MostRecent(h, x, cap) ==
    LET a == Append(h, x)
    IN  SubSeq(a, Max(1, Len(a) - cap + 1), Len(a))

\* C20: a node's SNR history never holds more than 20 entries and its RSSI
\* history never more than 10, and every settled transmission leaves in each
\* the most recent observations in arrival order: the new observation goes to
\* the end and, when the cap is exceeded, the oldest one is dropped.
C20_HistoriesMostRecent ==
    /\ [](\A n \in nodes :
            /\ Len(node[n].snr_history) <= SnrHistoryCap
            /\ Len(node[n].rssi_history) <= RssiHistoryCap)
    /\ [][\A n \in nodes :
            (pc[n] = "airborne" /\ pc'[n] = "idle")
            => /\ node'[n].snr_history =
                     MostRecent(node[n].snr_history, packet[n].snr, SnrHistoryCap)
               /\ node'[n].rssi_history =
                     MostRecent(node[n].rssi_history, packet[n].rssi, RssiHistoryCap)]_vars
    /\ [][\A n \in nodes :
            ~(pc[n] = "airborne" /\ pc'[n] = "idle")
            => /\ node'[n].snr_history = node[n].snr_history
               /\ node'[n].rssi_history = node[n].rssi_history]_vars

\* both histories of a node are full, more packets than the larger cap have
\* settled, and the oldest and the newest entry kept differ
C20_Witness ==
    \E n \in nodes :
        /\ pc[n] = "idle"
        /\ node[n].sent > SnrHistoryCap + 1
        /\ Len(node[n].snr_history) = SnrHistoryCap
        /\ Len(node[n].rssi_history) = RssiHistoryCap
        /\ node[n].snr_history[1] # node[n].snr_history[SnrHistoryCap]
        /\ node[n].rssi_history[RssiHistoryCap] = packet[n].rssi

\* C21: every two placed nodes are at least the minimum separation (10)
\* apart.
C21_PairwiseSeparated ==
    \A i \in nodes, j \in nodes :
        (i # j /\ pc[i] = "placed" /\ pc[j] = "placed")
        => FarEnough(<<node[i].x, node[i].y>>, <<node[j].x, node[j].y>>)

Airborne == {n \in nodes : pc[n] = "airborne"}

\* C22: every settled transmission is counted in exactly one of nrLost,
\* nrCollisions and nrReceived: no packet is both lost and collided, every
\* Settling step adds one to exactly one of the three counters, their sum is
\* the number of packets sent less those still in the air, and a node's sent
\* count exceeds the number of its settled packets (the length of its SNR
\* history, until that is full) by one while its packet is in the air and by
\* nothing otherwise.
C22_CountedExactlyOnce ==
    /\ [](\A n \in nodes : ~(packet[n].lost = 1 /\ packet[n].collided = 1))
    /\ [](nrLost + nrCollisions + nrReceived = sent - Cardinality(Airborne))
    /\ [](\A n \in nodes :
            Len(node[n].snr_history) < SnrHistoryCap
            => node[n].sent - Len(node[n].snr_history)
                 = IF n \in Airborne THEN 1 ELSE 0)
    /\ [][\A n \in nodes :
            (pc[n] = "airborne" /\ pc'[n] # "airborne")
            => /\ nrLost' - nrLost \in {0, 1}
               /\ nrCollisions' - nrCollisions \in {0, 1}
               /\ nrReceived' - nrReceived \in {0, 1}
               /\ (nrLost' - nrLost) + (nrCollisions' - nrCollisions)
                    + (nrReceived' - nrReceived) = 1]_vars

\* packets have settled as lost, as collided and as received, and one more
\* is in the air
C22_Witness ==
    /\ nrLost > 0 /\ nrCollisions > 0 /\ nrReceived > 0
    /\ Airborne # {}
    /\ sent = nrLost + nrCollisions + nrReceived + Cardinality(Airborne)

\* the Settling steps a node has completed: known from its SNR history until
\* that is full
Settles(n) == Len(node[n].snr_history)

\* C23: with adaptation enabled, each of the first 19 Settling steps of a node
\* leaves it a drawn rate and a drawn power and the failure counter at 0; from
\* the 20th on every Settling step leaves it the power the controller returns
\* for the settled packet and the mean of the full history, and the
\* controller's rate or that rate plus one; the history, once full, stays
\* full, so that the node never returns to the bootstrap phase.
C23_BootstrapThenController ==
    /\ [][\A n \in nodes :
            (pc[n] = "airborne" /\ pc'[n] = "idle" /\ Settles(n) < SnrHistoryCap - 1)
            => /\ Len(node'[n].snr_history) = Settles(n) + 1
               /\ node[n].sent = Settles(n) + 1
               /\ node'[n].sf \in rng.sf
               /\ node'[n].txpow \in rng.txpow
               /\ node[n].adr_ack_cnt = 0 /\ node'[n].adr_ack_cnt = 0]_vars
    /\ [][\A n \in nodes :
            (pc[n] = "airborne" /\ pc'[n] = "idle" /\ Settles(n) >= SnrHistoryCap - 1)
            => LET r == ns_adr_algorithm(packet[n].sf, packet[n].txpow,
                                         SumSeq(node'[n].snr_history))
               IN  /\ Len(node'[n].snr_history) = SnrHistoryCap
                   /\ node[n].sent >= SnrHistoryCap
                   /\ node'[n].txpow = r.txpow
                   /\ node'[n].sf \in {r.sf, r.sf + 1}
                   /\ node'[n].adr_ack_cnt \in {0, node[n].adr_ack_cnt + 1}]_vars
    /\ [][\A n \in nodes :
            Len(node'[n].snr_history) >= Len(node[n].snr_history)]_vars

\* a node has settled more than 20 packets, its failure counter has counted
\* and the controller has moved its power off the drawn one
C23_Witness ==
    \E n \in nodes :
        /\ pc[n] = "idle"
        /\ node[n].sent > SnrHistoryCap
        /\ Settles(n) = SnrHistoryCap
        /\ node[n].adr_ack_cnt > 0
        /\ node[n].txpow \notin rng.txpow

=============================================================================
